---- MODULE Spec2Model ----
(***************************************************************************)
(* State-machine model of the book downloader:                             *)
(*   download_optimised.py              download_and_build_pdf             *)
(*   download_concurrent_disk_merge.py  download_and_stream_to_pdf_...     *)
(*   download_concurrent.py + app.py    download_and_save_pdf behind "/"   *)
(*   download.py                        sequential download_and_build_pdf  *)
(* One behaviour runs one entry point, chosen in Init.  The coordinator    *)
(* (the calling thread) is tracked by pc; the pool's worker threads by the *)
(* state of each future.                                                   *)
(***************************************************************************)
EXTENDS Integers, Sequences, FiniteSets, TLC

VARIABLES
    entry,          \* which entry point this behaviour runs
    reader_url,     \* parse_qs(urlparse(reader_url).query): key -> list of values
    mem_budget_mb,  \* keyword argument of download_and_build_pdf
    max_threads,    \* keyword argument of download_and_build_pdf
    pc,             \* position of the coordinator
    total,          \* TotalPage as parsed
    probe,          \* outcome of the probe fetch of page 1: "none", "ok", "bad", "fail"
    img_size,       \* len(probe_bytes)
    threads,        \* computed worker count
    fut,            \* page -> state of its future
    yielded,        \* pages whose future as_completed has handed out
    ready,          \* keys of the dict `ready`
    next_write,     \* cursor
    written,        \* page ids added to the PDF by _add, in call order
    finalized,      \* number of times the document was finalized in this job
    artifact,       \* pages of the document returned to the caller
    requests,       \* page -> number of HTTP fetch executions in this job
    page_image_map, \* keys of page_image_map (disk_merge)
    images_dir,     \* image files on disk: set of [name, job, good]
    job,            \* ordinal of the request served by the web front end
    page,           \* loop variable of download_reader_images
    error_page,     \* page id carried by the error raised to the caller, 0: none
    fetch_pc,       \* position of one _fetch call followed attempt by attempt
    history,        \* HTTP statuses that _fetch call has received so far
    web,            \* request -> state of a POST to "/" served concurrently
    out_file        \* content of the shared output path of app.index

vars == <<entry, reader_url, mem_budget_mb, max_threads, pc, total, probe,
          img_size, threads, fut, yielded, ready, next_write, written,
          finalized, artifact, requests, page_image_map, images_dir, job, page,
          error_page, fetch_pc, history, web, out_file>>

inputs == <<entry, reader_url, mem_budget_mb, max_threads>>
gov    == <<probe, img_size, threads>>
poolv  == <<fut, yielded>>
asm    == <<ready, next_write, written>>
outv   == <<finalized, artifact>>
dirv   == <<images_dir, job>>
aux    == <<fetch_pc, history, web, out_file>>

-----------------------------------------------------------------------------
(* Bounds of the model *)

MaxPages == 4       \* largest TotalPage of the in-memory pipelines
MaxDirPages == 2    \* largest TotalPage of the directory-based pipelines
MaxJobs == 2        \* requests served one after another by the web front end

(* Inputs *)
Entries == {"optimised", "disk_merge", "app", "sequential"}
PageBound(e) == IF e \in {"app", "sequential"} THEN MaxDirPages ELSE MaxPages
Paths == { <<"/">>, <<"/", "b">> }            \* values of the Url parameter
Descriptors(e) ==
    [TotalPage : {<<>>} \cup { <<n>> : n \in -1..PageBound(e) },
     Url       : {<<>>} \cup { <<p>> : p \in Paths }]
Budgets == {16, 64, 512}                      \* mem_budget_mb
ThreadCaps == {0, 1, 2, 64}                   \* max_threads
ImgSizes == {4194304, 8388608}                \* len(probe_bytes) of a page image
DefaultBudget == 512
DefaultMaxThreads == 64
max_workers == 8

Range(a, b) == a..b                           \* range(a, b + 1)

-----------------------------------------------------------------------------
(* Descriptor parsing *)

Get(lst, default) == IF lst = <<>> THEN default ELSE lst

RECURSIVE Lstrip(_)
Lstrip(s) == IF s # <<>> /\ Head(s) = "/" THEN Lstrip(Tail(s)) ELSE s

ParsedPages(q) == Get(q.TotalPage, <<0>>)[1]
EncodedPath(q) == Get(q.Url, << <<>> >>)[1]
RelPath(q) == Lstrip(EncodedPath(q))

\* _parse raises ValueError
ParseRaises(q) == RelPath(q) = <<>> \/ ParsedPages(q) = 0

\* the explicit check of download_reader_images and of disk_merge
CheckRaises(q) == EncodedPath(q) = <<>> \/ ParsedPages(q) = 0

-----------------------------------------------------------------------------
(* Concurrency governor *)

Min(a, b) == IF a <= b THEN a ELSE b
Max(a, b) == IF a >= b THEN a ELSE b

fudge == 32 * 1024 * 1024

\* mutant: the operands of the subtraction swapped
WorkerCountSwapped(budget_mb, size, cap) ==
    Min(cap, Max(2, (fudge - budget_mb * 1024 * 1024) \div (size * 2)))

\* mutant: the max(2, ...) floor dropped
WorkerCountNoFloor(budget_mb, size, cap) ==
    Min(cap, (budget_mb * 1024 * 1024 - fudge) \div (size * 2))

WorkerCount(budget_mb, size, cap) ==
    Min(cap, Max(2, (budget_mb * 1024 * 1024 - fudge) \div (size * 2)))

-----------------------------------------------------------------------------
(* Helpers on futures and sets of pages *)

Queued   == { p \in DOMAIN fut : fut[p] = "queued" }
Running  == { p \in DOMAIN fut : fut[p] = "running" }
Finished == { p \in DOMAIN fut : fut[p] \in {"ok", "bad", "fail"} }

SetMin(S) == CHOOSE m \in S : \A x \in S : m <= x

RECURSIVE Sorted(_)
Sorted(S) == IF S = {} THEN <<>> ELSE <<SetMin(S)>> \o Sorted(S \ {SetMin(S)})

NoRequests == [p \in 1..(MaxPages + 1) |-> 0]
Issue(p) == [requests EXCEPT ![p] = @ + 1]

\* the bytes of page p as the coordinator of download_optimised holds them
Payload(p) == IF p \in DOMAIN fut THEN fut[p] ELSE probe

-----------------------------------------------------------------------------
Init ==
    /\ entry \in Entries
    /\ reader_url \in Descriptors(entry)
    /\ IF entry = "optimised"
         THEN mem_budget_mb \in Budgets /\ max_threads \in ThreadCaps
         ELSE mem_budget_mb = DefaultBudget /\ max_threads = DefaultMaxThreads
    /\ pc = "start"
    /\ total = 0
    /\ probe = "none"
    /\ img_size = 0
    /\ threads = 0
    /\ fut = <<>>
    /\ yielded = {}
    /\ ready = {}
    /\ next_write = 0
    /\ written = <<>>
    /\ finalized = 0
    /\ artifact = <<>>
    /\ requests = NoRequests
    /\ page_image_map = {}
    /\ images_dir \in IF entry = "sequential"
                        THEN { {[name |-> n, job |-> 0, good |-> TRUE] : n \in S}
                               : S \in SUBSET (1..MaxDirPages) }
                        ELSE { {} }
    /\ job = 1
    /\ page = 0
    /\ error_page = 0
    /\ fetch_pc = "idle"
    /\ history = <<>>
    /\ web = <<>>
    /\ out_file = <<>>

-----------------------------------------------------------------------------
(* download_optimised.download_and_build_pdf: the coordinator *)

Parse ==
    /\ entry = "optimised" /\ pc = "start"
    /\ IF ParseRaises(reader_url)
         THEN pc' = "raised" /\ UNCHANGED total
         ELSE pc' = "probe" /\ total' = ParsedPages(reader_url)
    /\ UNCHANGED <<aux, error_page, inputs, gov, poolv, asm, outv, requests, page_image_map, dirv, page>>

ProbeFetch ==
    /\ entry = "optimised" /\ pc = "probe"
    /\ requests' = Issue(1)
    /\ \/ probe' = "fail" /\ pc' = "raised" /\ error_page' = 1 /\ UNCHANGED img_size
       \/ \E s \in ImgSizes :
            probe' = "ok" /\ img_size' = s /\ pc' = "governor" /\ UNCHANGED error_page
       \/ \E s \in ImgSizes \cup {0} :
            probe' = "bad" /\ img_size' = s /\ pc' = "governor" /\ UNCHANGED error_page
    /\ UNCHANGED <<aux, inputs, total, threads, poolv, asm, outv, page_image_map, dirv, page>>

Governor ==
    /\ entry = "optimised" /\ pc = "governor"
    /\ IF img_size = 0
         THEN pc' = "raised" /\ UNCHANGED <<threads, ready, next_write>>
         ELSE /\ threads' = WorkerCount(mem_budget_mb, img_size, max_threads)
              /\ ready' = {1}
              /\ next_write' = 1
              /\ pc' = "pool"
    /\ UNCHANGED <<aux, error_page, inputs, total, probe, img_size, poolv, written, outv,
                   requests, page_image_map, dirv, page>>

\* mutant: page 1 is submitted to the pool although the probe fetched it
SubmitFromOne ==
    /\ entry = "optimised" /\ pc = "pool"
    /\ IF threads <= 0
         THEN pc' = "raised" /\ UNCHANGED fut
         ELSE fut' = [p \in Range(1, total) |-> "queued"] /\ pc' = "wait"
    /\ UNCHANGED <<aux, error_page, inputs, total, gov, yielded, asm, outv, requests,
                   page_image_map, dirv, page>>

Submit ==
    /\ entry = "optimised" /\ pc = "pool"
    /\ IF threads <= 0
         THEN pc' = "raised" /\ UNCHANGED fut
         ELSE fut' = [p \in Range(2, total) |-> "queued"] /\ pc' = "wait"
    /\ UNCHANGED <<aux, error_page, inputs, total, gov, yielded, asm, outv, requests,
                   page_image_map, dirv, page>>

\* mutant: a failed future is skipped instead of re-raised
ReceiveSkipFailed(p) ==
    /\ entry = "optimised" /\ pc = "wait"
    /\ p \in Finished \ yielded
    /\ yielded' = yielded \cup {p}
    /\ IF fut[p] = "fail"
         THEN pc' = "wait" /\ UNCHANGED ready
         ELSE pc' = "drain" /\ ready' = ready \cup {p}
    /\ UNCHANGED <<aux, error_page, inputs, total, gov, fut, next_write, written, outv,
                   requests, page_image_map, dirv, page>>

Receive(p) ==
    /\ entry = "optimised" /\ pc = "wait"
    /\ p \in Finished \ yielded
    /\ yielded' = yielded \cup {p}
    /\ IF fut[p] = "fail"
         THEN pc' = "aborting" /\ error_page' = p /\ UNCHANGED ready
         ELSE pc' = "drain" /\ ready' = ready \cup {p} /\ UNCHANGED error_page
    /\ UNCHANGED <<aux, inputs, total, gov, fut, next_write, written, outv,
                   requests, page_image_map, dirv, page>>

\* mutant: whatever has arrived is written, not the page the cursor names
DrainStepArrival ==
    /\ entry = "optimised" /\ pc = "drain"
    /\ ready # {}
    /\ LET pg == CHOOSE x \in ready : \A y \in ready : x >= y
       IN /\ ready' = ready \ {pg}
          /\ IF Payload(pg) = "ok"
               THEN /\ written' = Append(written, pg)
                    /\ next_write' = next_write + 1
                    /\ pc' = "drain"
               ELSE pc' = "aborting" /\ UNCHANGED <<written, next_write>>
    /\ UNCHANGED <<aux, error_page, inputs, total, gov, poolv, outv, requests, page_image_map, dirv, page>>

\* mutant: ready[next_write] is read but not popped
DrainStepNoPop ==
    /\ entry = "optimised" /\ pc = "drain"
    /\ next_write \in ready
    /\ IF Payload(next_write) = "ok"
         THEN /\ written' = Append(written, next_write)
              /\ next_write' = next_write + 1
              /\ pc' = "drain"
         ELSE pc' = "aborting" /\ UNCHANGED <<written, next_write>>
    /\ UNCHANGED <<aux, error_page, inputs, total, gov, poolv, ready, outv, requests, page_image_map, dirv, page>>

DrainStep ==
    /\ entry = "optimised" /\ pc = "drain"
    /\ next_write \in ready
    /\ ready' = ready \ {next_write}
    /\ IF Payload(next_write) = "ok"
         THEN /\ written' = Append(written, next_write)
              /\ next_write' = next_write + 1
              /\ pc' = "drain"
         ELSE pc' = "aborting" /\ UNCHANGED <<written, next_write>>
    /\ UNCHANGED <<aux, error_page, inputs, total, gov, poolv, outv, requests, page_image_map, dirv, page>>

DrainEnd ==
    /\ entry = "optimised" /\ pc = "drain"
    /\ next_write \notin ready
    /\ pc' = "wait"
    /\ UNCHANGED <<aux, error_page, inputs, total, gov, poolv, asm, outv, requests, page_image_map, dirv, page>>

PoolExit ==
    /\ entry = "optimised" /\ pc = "wait"
    /\ yielded = DOMAIN fut
    /\ pc' = "stragglers"
    /\ UNCHANGED <<aux, error_page, inputs, total, gov, poolv, asm, outv, requests, page_image_map, dirv, page>>

\* the pages of seq s that _add accepts before the first one it rejects
RECURSIVE AddAll(_)
AddAll(s) ==
    IF s = <<>> \/ Payload(Head(s)) # "ok" THEN <<>>
    ELSE <<Head(s)>> \o AddAll(Tail(s))

Stragglers ==
    /\ entry = "optimised" /\ pc = "stragglers"
    /\ LET todo == Sorted(ready)
           done == AddAll(todo)
       IN /\ written' = written \o done
          /\ pc' = IF Len(done) = Len(todo) THEN "output" ELSE "raised"
    /\ UNCHANGED <<aux, error_page, inputs, total, gov, poolv, ready, next_write, outv,
                   requests, page_image_map, dirv, page>>

Output ==
    /\ entry = "optimised" /\ pc = "output"
    /\ finalized' = finalized + 1
    /\ artifact' = written
    /\ pc' = "returned"
    /\ UNCHANGED <<aux, error_page, inputs, total, gov, poolv, asm, requests, page_image_map, dirv, page>>

(* the pool's worker threads *)

PoolSize == IF entry = "optimised" THEN threads ELSE max_workers

\* mutant: after the failure the workers take no more work items
StartUnlessFailed(p) ==
    /\ entry \in {"optimised", "disk_merge", "app"}
    /\ pc \in {"wait", "drain"}
    /\ Queued # {} /\ p = SetMin(Queued)
    /\ Cardinality(Running) < PoolSize
    /\ fut' = [fut EXCEPT ![p] = "running"]
    /\ requests' = Issue(p)
    /\ UNCHANGED <<aux, error_page, inputs, pc, total, gov, yielded, asm, outv, page_image_map, dirv, page>>

Start(p) ==
    /\ entry \in {"optimised", "disk_merge", "app"}
    /\ pc \in {"wait", "drain", "aborting"}
    /\ Queued # {} /\ p = SetMin(Queued)
    /\ Cardinality(Running) < PoolSize
    /\ fut' = [fut EXCEPT ![p] = "running"]
    /\ requests' = Issue(p)
    /\ UNCHANGED <<aux, error_page, inputs, pc, total, gov, yielded, asm, outv, page_image_map, dirv, page>>

\* mutant: the worker stores its result in `ready` itself
FetchIntoReady(p) ==
    /\ entry = "optimised"
    /\ p \in Running
    /\ \E r \in {"ok", "bad", "fail"} :
         /\ fut' = [fut EXCEPT ![p] = r]
         /\ ready' = IF r = "fail" THEN ready ELSE ready \cup {p}
    /\ UNCHANGED <<aux, error_page, inputs, pc, total, gov, yielded, next_write, written, outv, requests,
                   page_image_map, dirv, page>>

Fetch(p) ==
    /\ entry = "optimised"
    /\ p \in Running
    /\ \E r \in {"ok", "bad", "fail"} : fut' = [fut EXCEPT ![p] = r]
    /\ UNCHANGED <<aux, error_page, inputs, pc, total, gov, yielded, asm, outv, requests,
                   page_image_map, dirv, page>>

\* ThreadPoolExecutor.__exit__ on the exception path: shutdown(wait=True)
Shutdown ==
    /\ entry \in {"optimised", "disk_merge", "app"} /\ pc = "aborting"
    /\ Queued = {} /\ Running = {}
    /\ pc' = "raised"
    /\ UNCHANGED <<aux, error_page, inputs, total, gov, poolv, asm, outv, requests, page_image_map, dirv, page>>

-----------------------------------------------------------------------------
(* download_concurrent_disk_merge.download_and_stream_to_pdf_concurrent *)

Failed(p) == fut[p] \in {"bad", "fail"}

DmSubmit ==
    /\ entry = "disk_merge" /\ pc = "start"
    /\ IF CheckRaises(reader_url)
         THEN pc' = "raised" /\ UNCHANGED <<total, fut>>
         ELSE /\ total' = ParsedPages(reader_url)
              /\ fut' = [p \in Range(1, total') |-> "queued"]
              /\ pc' = "wait"
    /\ UNCHANGED <<aux, error_page, inputs, gov, yielded, asm, outv, requests, page_image_map, dirv, page>>

\* _download_single_image: a bad status or undecodable bytes raise in the worker
DmDownload(p) ==
    /\ entry = "disk_merge"
    /\ p \in Running
    /\ \E r \in {"ok", "bad", "fail"} : fut' = [fut EXCEPT ![p] = r]
    /\ UNCHANGED <<aux, error_page, inputs, pc, total, gov, yielded, asm, outv, requests,
                   page_image_map, dirv, page>>

DmReceive(p) ==
    /\ entry = "disk_merge" /\ pc = "wait"
    /\ p \in Finished \ yielded
    /\ yielded' = yielded \cup {p}
    /\ IF Failed(p)
         THEN pc' = "aborting" /\ error_page' = p /\ UNCHANGED page_image_map
         ELSE /\ pc' = "wait" /\ page_image_map' = page_image_map \cup {p}
              /\ UNCHANGED error_page
    /\ UNCHANGED <<aux, inputs, total, gov, fut, asm, outv, requests, dirv, page>>

DmAssemble ==
    /\ entry = "disk_merge" /\ pc = "wait"
    /\ yielded = DOMAIN fut
    /\ LET ordered_images == Sorted(page_image_map)
       IN IF ordered_images = <<>>
            THEN pc' = "raised" /\ UNCHANGED outv
            ELSE /\ artifact' = ordered_images
                 /\ finalized' = finalized + 1
                 /\ pc' = "returned"
    /\ UNCHANGED <<aux, error_page, inputs, total, gov, poolv, asm, requests, page_image_map, dirv, page>>

-----------------------------------------------------------------------------
(* download_concurrent.download_and_save_pdf as called by app.index *)

File(n, j, g) == [name |-> n, job |-> j, good |-> g]
Names(dir) == { f.name : f \in dir }
FileNamed(dir, n) == CHOOSE f \in dir : f.name = n
Save(dir, f) == { g \in dir : g.name # f.name } \cup {f}
Listing(dir) == [i \in 1..Cardinality(dir) |-> FileNamed(dir, Sorted(Names(dir))[i])]

download_images_to_dir ==
    /\ entry = "app" /\ pc = "start"
    /\ total' = ParsedPages(reader_url)
    /\ fut' = [p \in Range(1, total') |-> "queued"]
    /\ pc' = "wait"
    /\ UNCHANGED <<aux, error_page, inputs, gov, yielded, asm, outv, requests, page_image_map, dirv, page>>

\* _download_single_image: the file is saved only after status and decode passed
AppDownload(p) ==
    /\ entry = "app"
    /\ p \in Running
    /\ \E r \in {"ok", "bad", "fail"} :
         /\ fut' = [fut EXCEPT ![p] = r]
         /\ images_dir' = IF r = "ok" THEN Save(images_dir, File(p, job, TRUE))
                                      ELSE images_dir
    /\ UNCHANGED <<aux, error_page, inputs, pc, total, gov, yielded, asm, outv, requests,
                   page_image_map, job, page>>

\* mutant: the error names the 0-based index instead of the page
ErrorPageIndex(idx) == idx

\* f"Error on page {idx + 1}: {e}"
ErrorPage(idx) == idx + 1

AppReceive(p) ==
    /\ entry = "app" /\ pc = "wait"
    /\ p \in Finished \ yielded
    /\ yielded' = yielded \cup {p}
    /\ LET idx == p - 1      \* futures[fut]: the 0-based index of the url
       IN IF Failed(p)
            THEN pc' = "aborting" /\ error_page' = ErrorPage(idx)
            ELSE pc' = "wait" /\ UNCHANGED error_page
    /\ UNCHANGED <<aux, inputs, total, gov, fut, asm, outv, requests, page_image_map, dirv, page>>

AppPoolExit ==
    /\ entry = "app" /\ pc = "wait"
    /\ yielded = DOMAIN fut
    /\ pc' = "compile"
    /\ UNCHANGED <<aux, error_page, inputs, total, gov, poolv, asm, outv, requests, page_image_map, dirv, page>>

\* every listed file becomes a page and is removed from the directory
compile_dir_to_pdf ==
    /\ entry = "app" /\ pc = "compile"
    /\ IF images_dir = {}
         THEN pc' = "raised" /\ UNCHANGED <<outv, images_dir>>
         ELSE /\ artifact' = Listing(images_dir)
              /\ finalized' = finalized + 1
              /\ images_dir' = {}
              /\ pc' = "returned"
    /\ UNCHANGED <<aux, error_page, inputs, total, gov, poolv, asm, requests, page_image_map, job, page>>

\* the next POST to "/": same /tmp/pages, a new descriptor
index ==
    /\ entry = "app" /\ pc \in {"returned", "raised"}
    /\ job < MaxJobs
    /\ job' = job + 1
    /\ reader_url' \in Descriptors(entry)
    /\ pc' = "start"
    /\ total' = 0
    /\ fut' = <<>>
    /\ yielded' = {}
    /\ finalized' = 0
    /\ artifact' = <<>>
    /\ requests' = NoRequests
    /\ error_page' = 0
    /\ UNCHANGED <<aux, entry, mem_budget_mb, max_threads, gov, asm, page_image_map,
                   images_dir, page>>

-----------------------------------------------------------------------------
(* download.download_and_build_pdf: the sequential pipeline *)

SeqClear ==
    /\ entry = "sequential" /\ pc = "start"
    /\ images_dir' = {}
    /\ pc' = "parse"
    /\ UNCHANGED <<aux, error_page, inputs, total, gov, poolv, asm, outv, requests, page_image_map, job, page>>

SeqParse ==
    /\ entry = "sequential" /\ pc = "parse"
    /\ IF CheckRaises(reader_url)
         THEN pc' = "raised" /\ UNCHANGED <<total, page>>
         ELSE /\ total' = ParsedPages(reader_url)
              /\ page' = 1
              /\ pc' = "loop"
    /\ UNCHANGED <<aux, error_page, inputs, gov, poolv, asm, outv, requests, page_image_map, dirv>>

\* one iteration of the loop of download_reader_images
SeqFetch ==
    /\ entry = "sequential" /\ pc = "loop"
    /\ page <= total
    /\ page' = page + 1
    /\ IF page \in Names(images_dir)
         THEN UNCHANGED <<images_dir, requests>>
         ELSE /\ requests' = Issue(page)
              /\ \E r \in {"ok", "bad", "fail"} :
                   images_dir' = IF r = "fail" THEN images_dir
                                 ELSE Save(images_dir, File(page, job, r = "ok"))
    /\ UNCHANGED <<aux, error_page, inputs, pc, total, gov, poolv, asm, outv, page_image_map, job>>

SeqLoopEnd ==
    /\ entry = "sequential" /\ pc = "loop"
    /\ page > total
    /\ pc' = "images_to_pdf"
    /\ UNCHANGED <<aux, error_page, inputs, total, gov, poolv, asm, outv, requests, page_image_map, dirv, page>>

images_to_pdf ==
    /\ entry = "sequential" /\ pc = "images_to_pdf"
    /\ IF images_dir = {} \/ \E f \in images_dir : ~f.good
         THEN pc' = "raised" /\ UNCHANGED outv
         ELSE /\ artifact' = Listing(images_dir)
              /\ finalized' = finalized + 1
              /\ pc' = "returned"
    /\ UNCHANGED <<aux, error_page, inputs, total, gov, poolv, asm, requests, page_image_map, dirv, page>>

-----------------------------------------------------------------------------
Pages == 1..(MaxPages + 1)

Next ==
    \/ Parse
    \/ ProbeFetch
    \/ Governor
    \/ Submit
    \/ \E p \in Pages : Receive(p)
    \/ DrainStep
    \/ DrainEnd
    \/ PoolExit
    \/ Stragglers
    \/ Output
    \/ \E p \in Pages : Start(p)
    \/ \E p \in Pages : Fetch(p)
    \/ Shutdown
    \/ DmSubmit
    \/ \E p \in Pages : DmDownload(p)
    \/ \E p \in Pages : DmReceive(p)
    \/ DmAssemble
    \/ download_images_to_dir
    \/ \E p \in Pages : AppDownload(p)
    \/ \E p \in Pages : AppReceive(p)
    \/ AppPoolExit
    \/ compile_dir_to_pdf
    \/ index
    \/ SeqClear
    \/ SeqParse
    \/ SeqFetch
    \/ SeqLoopEnd
    \/ images_to_pdf

Spec == Init /\ [][Next]_vars

-----------------------------------------------------------------------------
(* download_optimised.download_and_build_pdf alone, with every thread kept    *)
(* running: the coordinator, the workers' pick-up of queued work items, and  *)
(* every fetch returning or raising (each attempt has timeout=30).           *)

InitOpt == Init /\ entry = "optimised"

Coordinator ==
    \/ Parse
    \/ ProbeFetch
    \/ Governor
    \/ Submit
    \/ \E p \in Pages : Receive(p)
    \/ DrainStep
    \/ DrainEnd
    \/ PoolExit
    \/ Stragglers
    \/ Output
    \/ Shutdown

NextOpt ==
    \/ Coordinator
    \/ \E p \in Pages : Start(p)
    \/ \E p \in Pages : Fetch(p)

LiveSpec ==
    /\ InitOpt /\ [][NextOpt]_vars
    /\ WF_vars(Coordinator)
    /\ \A p \in Pages : WF_vars(Start(p)) /\ WF_vars(Fetch(p))

-----------------------------------------------------------------------------
(* One _fetch call followed attempt by attempt: session.get under the        *)
(* adapter's Retry(total=3, status_forcelist=[429, 500, 502, 503, 504]).     *)
(* Fetch, DmDownload and AppDownload above are its outcome in one step:      *)
(* "fail" is this call raising, "ok"/"bad" is it returning r.content.        *)

RetryTotal == 3
status_forcelist == {429, 500, 502, 503, 504}
Statuses == {200, 403, 404} \cup status_forcelist
Ok(status) == status < 400                        \* requests.Response.ok

\* every main variable at rest
JobIdle ==
    /\ reader_url = [TotalPage |-> <<>>, Url |-> <<>>]
    /\ mem_budget_mb = DefaultBudget /\ max_threads = DefaultMaxThreads
    /\ pc = "start" /\ total = 0 /\ probe = "none" /\ img_size = 0 /\ threads = 0
    /\ fut = <<>> /\ yielded = {} /\ ready = {} /\ next_write = 0 /\ written = <<>>
    /\ finalized = 0 /\ artifact = <<>> /\ requests = NoRequests
    /\ page_image_map = {} /\ images_dir = {} /\ job = 1 /\ page = 0
    /\ error_page = 0

job_vars == <<entry, reader_url, mem_budget_mb, max_threads, pc, total, probe,
              img_size, threads, fut, yielded, ready, next_write, written,
              finalized, artifact, requests, page_image_map, job, page, error_page>>

InitFetch ==
    /\ entry = "fetch"
    /\ JobIdle
    /\ fetch_pc = "sending"
    /\ history = <<>>
    /\ web = <<>>
    /\ out_file = <<>>

\* mutant: no retry adapter mounted, the first response decides
FetchAttemptNoRetry ==
    /\ fetch_pc = "sending"
    /\ \E status \in Statuses :
         /\ history' = Append(history, status)
         /\ fetch_pc' = IF Ok(status) THEN "returned" ELSE "raised"
    /\ UNCHANGED <<job_vars, images_dir, web, out_file>>

\* one request of the call and what the adapter and _fetch do with the response
FetchAttempt ==
    /\ fetch_pc = "sending"
    /\ \E status \in Statuses :
         /\ history' = Append(history, status)
         /\ fetch_pc' =
              IF status \in status_forcelist
                THEN IF Len(history) < RetryTotal THEN "sending" ELSE "raised"
                ELSE IF Ok(status) THEN "returned" ELSE "raised"
    /\ UNCHANGED <<job_vars, images_dir, web, out_file>>

SpecFetch == InitFetch /\ [][FetchAttempt]_vars

-----------------------------------------------------------------------------
(* Two POSTs to "/" served at the same time: both call                      *)
(* download_and_save_pdf(url, images_dir="/tmp/pages", output_pdf=pdf_path) *)
(* with the same pdf_path, then send_file(pdf_path).                         *)

Requests == {1, 2}

WebSet(r, f, v) == [web EXCEPT ![r] = [@ EXCEPT ![f] = v]]

InitWeb ==
    /\ entry = "web"
    /\ JobIdle
    /\ fetch_pc = "idle"
    /\ history = <<>>
    /\ web \in [Requests -> { [pc |-> "download", total |-> n, pending |-> 1..n,
                               failed |-> FALSE, files |-> <<>>, pdf |-> <<>>,
                               response |-> <<>>] : n \in 1..MaxDirPages }]
    /\ out_file = <<>>

\* _download_single_image of request r for page p, and its future consumed
WebDownload(r, p) ==
    /\ web[r].pc = "download" /\ p \in web[r].pending
    /\ \E ok \in BOOLEAN :
         /\ images_dir' = IF ok THEN Save(images_dir, File(p, r, TRUE)) ELSE images_dir
         /\ web' = [web EXCEPT ![r] = [@ EXCEPT !.pending = @ \ {p},
                                                !.failed = @ \/ ~ok]]
    /\ UNCHANGED <<job_vars, fetch_pc, history, out_file>>

\* end of download_images_to_dir, then files = sorted(images_dir.iterdir())
WebList(r) ==
    /\ web[r].pc = "download" /\ web[r].pending = {}
    /\ web' = IF web[r].failed \/ images_dir = {}
                THEN WebSet(r, "pc", "raised")
                ELSE [web EXCEPT ![r] = [@ EXCEPT !.pc = "compile",
                                                  !.files = Sorted(Names(images_dir))]]
    /\ UNCHANGED <<job_vars, images_dir, fetch_pc, history, out_file>>

\* one iteration of the loop of compile_dir_to_pdf: open, add page, remove
WebAddPage(r) ==
    /\ web[r].pc = "compile" /\ web[r].files # <<>>
    /\ LET n == Head(web[r].files)
       IN IF n \in Names(images_dir)
            THEN /\ web' = [web EXCEPT ![r] =
                              [@ EXCEPT !.pdf = Append(@, FileNamed(images_dir, n)),
                                        !.files = Tail(@)]]
                 /\ images_dir' = { f \in images_dir : f.name # n }
            ELSE /\ web' = WebSet(r, "pc", "raised")
                 /\ UNCHANGED images_dir
    /\ UNCHANGED <<job_vars, fetch_pc, history, out_file>>

\* pdf.output(str(output_pdf))
WebOutput(r) ==
    /\ web[r].pc = "compile" /\ web[r].files = <<>>
    /\ out_file' = web[r].pdf
    /\ web' = WebSet(r, "pc", "send")
    /\ UNCHANGED <<job_vars, images_dir, fetch_pc, history>>

\* send_file(pdf_path)
WebSend(r) ==
    /\ web[r].pc = "send"
    /\ web' = [web EXCEPT ![r] = [@ EXCEPT !.pc = "sent", !.response = out_file]]
    /\ UNCHANGED <<job_vars, images_dir, fetch_pc, history, out_file>>

NextWeb ==
    \/ \E r \in Requests, p \in Pages : WebDownload(r, p)
    \/ \E r \in Requests : WebList(r)
    \/ \E r \in Requests : WebAddPage(r)
    \/ \E r \in Requests : WebOutput(r)
    \/ \E r \in Requests : WebSend(r)

SpecWeb == InitWeb /\ [][NextWeb]_vars

-----------------------------------------------------------------------------
(* Properties *)

Ascending(n) == [i \in 1..n |-> i]
Count(s, k) == Cardinality({ i \in 1..Len(s) : s[i] = k })
GovernorRan == entry = "optimised" /\ next_write >= 1
UnitFailed(k) ==
    IF entry = "optimised" /\ k = 1 THEN probe \in {"bad", "fail"}
    ELSE k \in DOMAIN fut /\ fut[k] \in {"bad", "fail"}
Malformed(q) == ParsedPages(q) <= 0 \/ q.Url = <<>>
BudgetProbes == { 8 * b : b \in 0..80 }

\* C1: whatever the completion order, the pages handed to _add are always
\* 1, 2, ... in ascending order and are exactly 1..N when the job returns;
\* the page list assembled by download_and_stream_to_pdf_concurrent is 1..N.
C1_PageOrder ==
    /\ entry = "optimised" =>
         /\ written = Ascending(Len(written))
         /\ (pc \in {"output", "returned"} /\ total >= 1) => written = Ascending(total)
    /\ (entry = "disk_merge" /\ pc = "returned") => artifact = Ascending(total)

\* page 4 arrived before page 3 and pages 1, 2 have been written
C1_Witness ==
    /\ entry = "optimised" /\ total = 4
    /\ written = <<1, 2>> /\ ready = {4} /\ 3 \notin yielded

\* C2: no id is ever written twice, and a job that returns has written every
\* id of 1..N exactly once (drain loop and straggler loop together).
C2_EachOnce ==
    entry = "optimised" =>
      /\ \A k \in Pages : Count(written, k) <= 1
      /\ (pc = "returned" /\ total >= 1) =>
           /\ Len(artifact) = total
           /\ \A k \in 1..total : Count(artifact, k) = 1

C2_Witness ==
    /\ entry = "optimised" /\ pc = "returned" /\ total >= 3
    /\ finalized = 1 /\ Len(artifact) = total

\* C3: once the fetch or decode of some unit of 1..N has failed, the document
\* is not finalized and no artifact is returned (download_optimised and
\* download_concurrent).
C3_FailFast ==
    (entry \in {"optimised", "app"} /\ \E k \in 1..total : UnitFailed(k)) =>
      /\ finalized = 0
      /\ artifact = <<>>
      /\ pc \notin {"compile", "output", "returned"}

\* a later unit failed after earlier ones were written; the job raised
C3_Witness ==
    /\ entry = "optimised" /\ pc = "raised"
    /\ Len(written) >= 2
    /\ \E k \in DOMAIN fut : fut[k] = "fail"

\* C4: the ready buffer never holds more than L entries, L being the worker
\* count the memory budget allows (threads x img_size is what the budget
\* accounts for).
C4_BoundedReady ==
    (GovernorRan /\ threads >= 2) => Cardinality(ready) <= threads

\* C5: every artifact download_and_save_pdf produces for a well-formed
\* descriptor has N pages, all fetched by the job that returns it, whatever
\* jobs ran before on the same images_dir.
C5_OwnPagesOnly ==
    (entry = "app" /\ pc = "returned" /\ ~Malformed(reader_url)) =>
      /\ Len(artifact) = total
      /\ \A i \in 1..Len(artifact) : artifact[i].job = job

\* C6: once the coordinator has observed a failed fetch, no fetch that was
\* submitted but not started is started any more.
C6_CancelOnFailure ==
    [][(entry = "optimised" /\ pc = "aborting") =>
         \A p \in Queued : fut'[p] = "queued"]_vars

\* C7: the sequential pipeline never writes a PDF that lacks a page of 1..N.
C7_NoMissingPage ==
    (entry = "sequential" /\ pc = "returned") =>
      { artifact[i].name : i \in 1..Len(artifact) } = 1..total

\* C8: with TotalPage <= 0 or the Url parameter missing, no fetch is issued
\* and no artifact is produced.
C8_MalformedRejected ==
    (entry \in {"optimised", "app"} /\ Malformed(reader_url)) =>
      /\ requests = NoRequests
      /\ finalized = 0
      /\ pc # "returned"

\* C9: the computed worker count never exceeds max_threads, and a larger
\* (smaller) memory budget never yields a smaller (larger) count for the same
\* img_size and max_threads.
C9_GovernorMonotone ==
    GovernorRan =>
      /\ threads <= max_threads
      /\ \A b \in BudgetProbes :
           /\ b >= mem_budget_mb => WorkerCount(b, img_size, max_threads) >= threads
           /\ b <= mem_budget_mb => WorkerCount(b, img_size, max_threads) <= threads

\* the budget, not the cap or the floor, decides the count
C9_Witness ==
    GovernorRan /\ threads > 2 /\ threads < max_threads

\* C10 as stated: the worker count is >= 2 for every max_threads.
C10_AtLeastTwo ==
    GovernorRan => threads >= 2

\* C10 amended: the worker count is >= 2 whenever max_threads >= 2.
C10_AtLeastTwoUnderCap ==
    (GovernorRan /\ max_threads >= 2) => threads >= 2

\* a budget below the fudge: the floor of 2 decides the count
C10_Witness ==
    /\ GovernorRan /\ max_threads >= 2
    /\ mem_budget_mb * 1024 * 1024 < fudge
    /\ threads = 2

BudgetTooSmall == mem_budget_mb * 1024 * 1024 - fudge < 2 * img_size

\* C11: when budget - fudge < 2 * img_size the job raises instead of
\* dispatching workers: nothing is submitted to the pool, no page of 2..N is
\* fetched and no artifact is returned.
C11_ResourceExhaustion ==
    (GovernorRan /\ BudgetTooSmall /\ total >= 1) =>
      /\ pc \notin {"output", "returned"}
      /\ Running = {}
      /\ \A p \in Pages \ {1} : requests[p] = 0

\* C14: a step in which a worker thread moves (a future changes state) never
\* changes the ready buffer, the cursor or the pages written: they change only
\* in steps of the coordinator, one step at a time.
C14_CoordinatorOwns ==
    [][(entry = "optimised" /\ fut' # fut) =>
         UNCHANGED <<ready, next_write, written>>]_vars

\* the coordinator is in the middle of the drain loop while a fetch is running
C14_Witness ==
    /\ entry = "optimised" /\ pc = "drain"
    /\ Running # {} /\ next_write \in ready /\ Len(written) >= 1

\* C15: with every fetch returning or raising, the job eventually terminates,
\* and when it returns an artifact for N >= 1 all of 1..N have been written
\* and the document was finalized once; otherwise it has raised.
C15_Terminates ==
    /\ <>(pc \in {"returned", "raised"})
    /\ [](pc = "returned" /\ total >= 1 =>
            written = Ascending(total) /\ finalized = 1 /\ artifact = written)

\* a job that raised after the pool had run every submitted fetch
C15_Witness ==
    /\ entry = "optimised" /\ pc = "raised"
    /\ Cardinality(DOMAIN fut) >= 2 /\ Finished = DOMAIN fut

\* C16: the PDF is finalized at most once, and the straggler loop and
\* pdf.output are reached only with next_write = N + 1 and an empty ready
\* buffer, for every N >= 1.
C16_FinalizedAtEnd ==
    (entry = "optimised" /\ total >= 1) =>
      /\ finalized <= 1
      /\ pc \in {"stragglers", "output", "returned"} =>
           next_write = total + 1 /\ ready = {}

\* C17: in every step every key of ready stays >= next_write, next_write
\* never decreases and moves by one only when its value is in ready, a page
\* that is written leaves ready in the same step, and no written page is
\* inserted again.
C17_BufferDiscipline ==
    [][(GovernorRan /\ total >= 1) =>
         /\ \A k \in ready' : k >= next_write'
         /\ next_write' >= next_write
         /\ next_write' # next_write =>
              next_write' = next_write + 1 /\ next_write \in ready
         /\ \A i \in (Len(written) + 1)..Len(written') :
              written'[i] \in ready /\ written'[i] \notin ready'
         /\ \A k \in ready' \ ready : Count(written, k) = 0]_vars

\* C18: no page is fetched by more than one fetch execution, page 1 is never
\* submitted to the pool, no future is handed out twice, and a job that
\* returns has fetched and written every id of 1..N exactly once.
C18_OneFetchPerId ==
    entry = "optimised" =>
      /\ \A p \in Pages : requests[p] <= 1
      /\ 1 \notin DOMAIN fut
      /\ \A p \in DOMAIN fut : fut[p] = "queued" <=> requests[p] = 0
      /\ yielded \subseteq Finished
      /\ (pc = "returned" /\ total >= 1) =>
           \A p \in 1..total : requests[p] = 1 /\ Count(written, p) = 1

\* every page of a returned job was fetched once: page 1 by the probe only
C18_Witness ==
    /\ entry = "optimised" /\ pc = "returned" /\ total = 2
    /\ requests[1] = 1 /\ requests[2] = 1 /\ DOMAIN fut = {2}

Transient(h) == \A i \in 1..Len(h) : h[i] \in status_forcelist

FetchFailed(k) ==
    IF entry = "optimised"
      THEN IF k = 1 THEN probe = "fail" ELSE k \in DOMAIN fut /\ fut[k] = "fail"
      ELSE k \in DOMAIN fut /\ Failed(k)

\* C13: the id carried by the error is the id of a unit whose fetch failed,
\* and once the coordinator has seen a failed fetch the error names it.
C13_ErrorNamesFailedUnit ==
    entry \in {"optimised", "app"} =>
      /\ error_page # 0 => FetchFailed(error_page)
      /\ \A p \in yielded : FetchFailed(p) => error_page = p
      /\ probe = "fail" => error_page = 1

\* page 1 succeeded, page 2 failed: the error names page 2
C13_Witness ==
    /\ entry = "app" /\ pc = "raised" /\ total = 2
    /\ fut[1] = "ok" /\ fut[2] = "fail" /\ error_page = 2

\* C19: every response of two concurrently served requests carries the
\* document built from exactly the N pages of its own descriptor, in order.
C19_NoInterference ==
    \A r \in DOMAIN web :
      web[r].pc = "sent" =>
        web[r].response = [i \in 1..web[r].total |-> File(i, r, TRUE)]

====
